---- MODULE Spec2Model ----
(***************************************************************************)
(* scripts/update_doc_versions.py: synchronise the version strings of the  *)
(* Markdown files with cfg/app.yaml.                                       *)
(*                                                                         *)
(* Text is a sequence of one-character strings.  The two characters of the *)
(* Korean label are written "U+BC84" and "U+C804".  Files hold bytes; the  *)
(* script reads and writes them in text mode, so reading translates the    *)
(* line endings (CR LF and CR become LF) and writing translates LF to the  *)
(* line separator of the host.                                             *)
(***************************************************************************)
EXTENDS Integers, Sequences, FiniteSets, TLC

VARIABLES
    cfg,            \* bytes of cfg/app.yaml
    fs,             \* path -> bytes of the file
    unreadable,     \* paths whose read_text raises OSError / UnicodeDecodeError
    unwritable,     \* paths whose write_text raises OSError on open
    linesep,        \* os.linesep of the host
    pc,             \* position of the process
    version,        \* main: version
    markdown_files, \* main: markdown_files, in rglob's order
    idx,            \* main: index of the next md_file of the for loop
    any_changed,    \* main: any_changed
    stdout,         \* lines printed
    stderr,         \* diagnostics printed by the interpreter
    exit_code,      \* process exit status, NoExit while running
    calls,          \* history: one record per update_markdown call
    fs0,            \* history: fs when the first run started
    docs,           \* history: the items each file was composed of
    cfgdoc          \* history: the lines cfg/app.yaml was composed of

vars == <<cfg, fs, unreadable, unwritable, linesep, pc, version, markdown_files,
          idx, any_changed, stdout, stderr, exit_code, calls, fs0, docs, cfgdoc>>

----------------------------------------------------------------------------
(* Characters and strings                                                  *)

LF == "\n"
CR == "\r"
BSL == "\\"

\* the ASCII characters of \d and (those that occur in the documents) of \s
Digits == {"0", "1", "2", "3", "4", "5", "6", "7", "8", "9"}
Spaces == {" ", "\t", LF, CR}

\* the character class of a regular expression: \s or \d
InClass(cls, c) == IF cls = "s" THEN c \in Spaces ELSE c \in Digits

\* text[i..j], empty when j < i
Slice(text, i, j) == SubSeq(text, i, j)

\* sub occurs in text at position i
OccursAt(sub, text, i) ==
    /\ i + Len(sub) - 1 <= Len(text)
    /\ \A k \in 1..Len(sub) : text[i + k - 1] = sub[k]

\* Python: sub in text
Contains(sub, text) == \E i \in 1..(Len(text) + 1) : OccursAt(sub, text, i)

RECURSIVE ReplaceFrom(_, _, _, _)
ReplaceFrom(text, old, new, i) ==
    IF i > Len(text) THEN <<>>
    ELSE IF OccursAt(old, text, i)
         THEN new \o ReplaceFrom(text, old, new, i + Len(old))
         ELSE <<text[i]>> \o ReplaceFrom(text, old, new, i + 1)

\* Python: text.replace(old, new), old not empty: the occurrences are found
\* left to right and do not overlap
StrReplace(text, old, new) == ReplaceFrom(text, old, new, 1)

RECURSIVE DecodeFrom(_, _)
DecodeFrom(bytes, i) ==
    IF i > Len(bytes) THEN <<>>
    ELSE IF bytes[i] = CR
         THEN <<LF>> \o DecodeFrom(bytes, IF i < Len(bytes) /\ bytes[i + 1] = LF
                                          THEN i + 2 ELSE i + 1)
         ELSE <<bytes[i]>> \o DecodeFrom(bytes, i + 1)

\* text-mode read (newline=None): universal newlines
Decode(bytes) == DecodeFrom(bytes, 1)

RECURSIVE EncodeFrom(_, _, _)
EncodeFrom(text, sep, i) ==
    IF i > Len(text) THEN <<>>
    ELSE (IF text[i] = LF THEN sep ELSE <<text[i]>>) \o EncodeFrom(text, sep, i + 1)

\* text-mode write (newline=None): LF becomes os.linesep
Encode(text, sep) == EncodeFrom(text, sep, 1)

----------------------------------------------------------------------------
(* Regular expressions (module re)                                         *)
(* A pattern is a sequence of elements:                                    *)
(*   [k |-> "lit", c]         the character c                              *)
(*   [k |-> "rep", cls, min]  greedy cls* (min 0) or cls+ (min 1)          *)
(*   [k |-> "open"], [k |-> "close"]   the parentheses of group 1          *)
(*   [k |-> "bol"], [k |-> "eol"]      ^ and $ under re.MULTILINE          *)

LitE(c) == [k |-> "lit", c |-> c, cls |-> "", min |-> 0]
RepE(cls, min) == [k |-> "rep", c |-> "", cls |-> cls, min |-> min]
OpenE == [k |-> "open", c |-> "", cls |-> "", min |-> 0]
CloseE == [k |-> "close", c |-> "", cls |-> "", min |-> 0]
BolE == [k |-> "bol", c |-> "", cls |-> "", min |-> 0]
EolE == [k |-> "eol", c |-> "", cls |-> "", min |-> 0]

Lit(s) == [i \in 1..Len(s) |-> LitE(s[i])]

\* no match; a match is [end |-> first position after it, gs, ge |-> group 1 is
\* text[gs..ge-1]]
NoMatch == [end |-> 0, gs |-> 0, ge |-> 0]

\* length of the longest run of cls characters of text from position i
RECURSIVE RunLen(_, _, _)
RunLen(cls, text, i) ==
    IF i <= Len(text) /\ InClass(cls, text[i]) THEN 1 + RunLen(cls, text, i + 1) ELSE 0

\* the match of pat[k..] at position i the backtracking matcher finds first
RECURSIVE MatchFrom(_, _, _, _, _, _)
RECURSIVE TryRep(_, _, _, _, _, _, _)
MatchFrom(pat, k, text, i, gs, ge) ==
    IF k > Len(pat) THEN [end |-> i, gs |-> gs, ge |-> ge]
    ELSE LET e == pat[k] IN
         CASE e.k = "lit" ->
                IF i <= Len(text) /\ text[i] = e.c
                THEN MatchFrom(pat, k + 1, text, i + 1, gs, ge) ELSE NoMatch
           [] e.k = "rep" -> TryRep(pat, k, text, i, gs, ge, RunLen(e.cls, text, i))
           [] e.k = "open" -> MatchFrom(pat, k + 1, text, i, i, ge)
           [] e.k = "close" -> MatchFrom(pat, k + 1, text, i, gs, i)
           [] e.k = "bol" ->
                IF i = 1 \/ text[i - 1] = LF
                THEN MatchFrom(pat, k + 1, text, i, gs, ge) ELSE NoMatch
           [] e.k = "eol" ->
                IF i = Len(text) + 1 \/ text[i] = LF
                THEN MatchFrom(pat, k + 1, text, i, gs, ge) ELSE NoMatch
\* greedy repetition: n characters first, then fewer, down to the minimum
TryRep(pat, k, text, i, gs, ge, n) ==
    IF n < pat[k].min THEN NoMatch
    ELSE LET m == MatchFrom(pat, k + 1, text, i + n, gs, ge) IN
         IF m # NoMatch THEN m ELSE TryRep(pat, k, text, i, gs, ge, n - 1)

MatchAt(pat, text, i) == MatchFrom(pat, 1, text, i, 0, 0)

\* pattern.search(text): the match at the leftmost position that has one, as
\* [start, end, gs, ge], or NoMatch
RECURSIVE SearchFrom(_, _, _)
SearchFrom(pat, text, i) ==
    IF i > Len(text) + 1 THEN NoMatch
    ELSE LET m == MatchAt(pat, text, i) IN
         IF m # NoMatch THEN m ELSE SearchFrom(pat, text, i + 1)

Search(pat, text) == SearchFrom(pat, text, 1)

\* the expansion of a replacement template for a match: \N (one or two digits)
\* is group N, of which the patterns here have only group 1
RECURSIVE ExpandFrom(_, _, _, _)
ExpandFrom(tmpl, j, text, m) ==
    IF j > Len(tmpl) THEN <<>>
    ELSE IF tmpl[j] = BSL /\ j < Len(tmpl) /\ tmpl[j + 1] \in Digits
         THEN IF j + 1 < Len(tmpl) /\ tmpl[j + 2] \in Digits
              THEN <<"invalid group reference">> \o ExpandFrom(tmpl, j + 3, text, m)
              ELSE (IF tmpl[j + 1] = "1" THEN Slice(text, m.gs, m.ge - 1)
                    ELSE <<"invalid group reference">>)
                   \o ExpandFrom(tmpl, j + 2, text, m)
         ELSE <<tmpl[j]>> \o ExpandFrom(tmpl, j + 1, text, m)

Expand(tmpl, text, m) == ExpandFrom(tmpl, 1, text, m)

\* pattern.sub(tmpl, text): the non-overlapping matches, left to right, each
\* replaced by the expansion of tmpl (no pattern here matches the empty string)
RECURSIVE SubFrom(_, _, _, _)
SubFrom(pat, tmpl, text, i) ==
    IF i > Len(text) THEN <<>>
    ELSE LET m == MatchAt(pat, text, i) IN
         IF m # NoMatch /\ m.end > i
         THEN Expand(tmpl, text, m) \o SubFrom(pat, tmpl, text, m.end)
         ELSE <<text[i]>> \o SubFrom(pat, tmpl, text, i + 1)

Sub(pat, tmpl, text) == SubFrom(pat, tmpl, text, 1)

----------------------------------------------------------------------------
(* Constants of the script                                                 *)

VERSION_PLACEHOLDER == <<"{", "V", "e", "r", "s", "i", "o", "n", "}">>

StarStarVersion == <<"*", "*", "V", "e", "r", "s", "i", "o", "n">>
KoreanLabel == <<"U+BC84", "U+C804">>
StarStarColon == <<"*", "*", ":">>

\* v\d+\.\d+\.\d+
VersionRe == <<LitE("v"), RepE("d", 1), LitE("."), RepE("d", 1), LitE("."), RepE("d", 1)>>

\* mutant: the group closed before the separator,
\* (\*\*Version\s*/\s*<Korean label>\*\*:)\s*v\d+\.\d+\.\d+
BilingualPattern_GroupBeforeSeparator ==
    <<OpenE>> \o Lit(StarStarVersion) \o <<RepE("s", 0), LitE("/"), RepE("s", 0)>>
    \o Lit(KoreanLabel) \o Lit(StarStarColon) \o <<CloseE, RepE("s", 0)>> \o VersionRe

\* (\*\*Version\s*/\s*<Korean label>\*\*:\s*)v\d+\.\d+\.\d+
BilingualPattern ==
    <<OpenE>> \o Lit(StarStarVersion) \o <<RepE("s", 0), LitE("/"), RepE("s", 0)>>
    \o Lit(KoreanLabel) \o Lit(StarStarColon) \o <<RepE("s", 0), CloseE>> \o VersionRe

\* mutant: the old version left out of the pattern, (\*\*Version\*\*:\s*)
PlainPattern_LabelOnly ==
    <<OpenE>> \o Lit(StarStarVersion) \o Lit(StarStarColon) \o <<RepE("s", 0), CloseE>>

\* (\*\*Version\*\*:\s*)v\d+\.\d+\.\d+
PlainPattern ==
    <<OpenE>> \o Lit(StarStarVersion) \o Lit(StarStarColon) \o <<RepE("s", 0), CloseE>>
    \o VersionRe

VERSION_LINE_PATTERNS == <<BilingualPattern, PlainPattern>>

\* ^\s*version:\s*(v\d+\.\d+\.\d+)\s*$ with re.MULTILINE
YAML_VERSION_REGEX ==
    <<BolE, RepE("s", 0)>> \o Lit(<<"v", "e", "r", "s", "i", "o", "n", ":">>)
    \o <<RepE("s", 0), OpenE>> \o VersionRe \o <<CloseE, RepE("s", 0), EolE>>

----------------------------------------------------------------------------
(* The functions of the script, as functions of the text                   *)

\* mutant: a default version instead of SystemExit
load_version_Default(text) ==
    LET match == Search(YAML_VERSION_REGEX, text) IN
    [ok |-> TRUE,
     v |-> IF match = NoMatch THEN <<"v", "0", ".", "0", ".", "0">>
           ELSE Slice(text, match.gs, match.ge - 1)]

\* load_version on the text of cfg/app.yaml: [ok |-> TRUE, v |-> match.group(1)],
\* or [ok |-> FALSE, v |-> <<>>] where it raises SystemExit
load_version(text) ==
    LET match == Search(YAML_VERSION_REGEX, text) IN
    IF match = NoMatch THEN [ok |-> FALSE, v |-> <<>>]
    ELSE [ok |-> TRUE, v |-> Slice(text, match.gs, match.ge - 1)]

\* rf"\1{version}"
Template(v) == <<BSL, "1">> \o v

\* mutant: the loop left after the first pattern
ApplyPatterns_FirstOnly(updated, v, n) ==
    Sub(VERSION_LINE_PATTERNS[n], Template(v), updated)

\* for pattern in VERSION_LINE_PATTERNS[n..]: updated = pattern.sub(..., updated)
RECURSIVE ApplyPatterns(_, _, _)
ApplyPatterns(updated, v, n) ==
    IF n > Len(VERSION_LINE_PATTERNS) THEN updated
    ELSE ApplyPatterns(Sub(VERSION_LINE_PATTERNS[n], Template(v), updated), v, n + 1)

\* mutant: the result of replace dropped (updated.replace(...) alone)
UpdateText_ReplaceDropped(original, v) == ApplyPatterns(original, v, 1)

\* update_markdown, lines 40-46: updated as a function of original
UpdateText(original, v) ==
    LET replaced == IF Contains(VERSION_PLACEHOLDER, original)
                    THEN StrReplace(original, VERSION_PLACEHOLDER, v)
                    ELSE original
    IN ApplyPatterns(replaced, v, 1)

\* mutant: the file written and True returned whether the text differs or not
update_markdown_AlwaysWrites(bytes, v, sep, canRead, canWrite) ==
    IF canRead /\ canWrite
    THEN [raised |-> FALSE, wrote |-> TRUE, ret |-> TRUE,
          bytes |-> Encode(UpdateText(Decode(bytes), v), sep)]
    ELSE [raised |-> TRUE, wrote |-> FALSE, ret |-> FALSE, bytes |-> bytes]

\* mutant: the file opened for writing (and so emptied) before it is read
update_markdown_OpensFirst(bytes, v, sep, canRead, canWrite) ==
    LET original == Decode(bytes)
        updated == UpdateText(original, v)
    IN IF ~canWrite
       THEN [raised |-> TRUE, wrote |-> FALSE, ret |-> FALSE, bytes |-> bytes]
       ELSE IF ~canRead
            THEN [raised |-> TRUE, wrote |-> FALSE, ret |-> FALSE, bytes |-> <<>>]
            ELSE [raised |-> FALSE, wrote |-> updated # original,
                  ret |-> updated # original,
                  bytes |-> IF updated # original THEN Encode(updated, sep) ELSE bytes]

\* update_markdown(path, version) on a file holding bytes, on a host whose line
\* separator is sep; canRead and canWrite say whether the file can be opened:
\*   raised   an OSError left the function (and then nothing was written)
\*   wrote    write_text was called and succeeded
\*   ret      the value returned
\*   bytes    the bytes of the file afterwards
update_markdown(bytes, v, sep, canRead, canWrite) ==
    LET original == Decode(bytes)
        updated == UpdateText(original, v)
    IN IF ~canRead
       THEN [raised |-> TRUE, wrote |-> FALSE, ret |-> FALSE, bytes |-> bytes]
       ELSE IF updated # original
            THEN IF canWrite
                 THEN [raised |-> FALSE, wrote |-> TRUE, ret |-> TRUE,
                       bytes |-> Encode(updated, sep)]
                 ELSE [raised |-> TRUE, wrote |-> FALSE, ret |-> FALSE, bytes |-> bytes]
            ELSE [raised |-> FALSE, wrote |-> FALSE, ret |-> FALSE, bytes |-> bytes]

----------------------------------------------------------------------------
(* Documents: what the files and cfg/app.yaml are composed of              *)

V100 == <<"v", "1", ".", "0", ".", "0">>
V2310 == <<"v", "2", ".", "3", ".", "1", "0">>
Versions == {V100, V2310}

PlainLabel == StarStarVersion \o StarStarColon \o <<" ">>
BilingualLabel ==
    StarStarVersion \o <<" ", "/", " ">> \o KoreanLabel \o StarStarColon \o <<" ">>

\* an item of a document: a placeholder, an annotation (label head, version ver)
\* or other text
PlaceholderItem == [kind |-> "placeholder", head |-> VERSION_PLACEHOLDER, ver |-> <<>>]
Annotation(label, v) == [kind |-> "annotation", head |-> label, ver |-> v]
TextItem(s) == [kind |-> "text", head |-> s, ver |-> <<>>]

LabelItem == TextItem(PlainLabel)
DigitItem == TextItem(<<"5">>)
LfItem == TextItem(<<LF>>)
CrLfItem == TextItem(<<CR, LF>>)

Items ==
    { PlaceholderItem, Annotation(PlainLabel, V100), Annotation(BilingualLabel, V100),
      LabelItem, DigitItem, LfItem, CrLfItem }

ItemText(it) == it.head \o it.ver

RECURSIVE Flatten(_)
Flatten(ss) == IF ss = <<>> THEN <<>> ELSE Head(ss) \o Flatten(Tail(ss))

\* the bytes of a file composed of the items of doc
DocBytes(doc) == Flatten([i \in 1..Len(doc) |-> ItemText(doc[i])])

\* the sequences over S of length at most n
SeqsUpTo(S, n) == UNION {[1..k -> S] : k \in 0..n}

\* a line of cfg/app.yaml: key at nesting depth 0 or 1, with a value or none
CfgLine(depth, key, value, text) ==
    [depth |-> depth, key |-> key, value |-> value, text |-> text]

AppLine == CfgLine(0, "app", <<>>, <<"a", "p", "p", ":">>)
OtherLine == CfgLine(0, "other", <<>>, <<"o", "t", "h", "e", "r", ":">>)
VersionKey == <<"v", "e", "r", "s", "i", "o", "n", ":", " ">>
NestedVersion(v) == CfgLine(1, "version", v, <<" ", " ">> \o VersionKey \o v)
TopVersion(v) == CfgLine(0, "version", v, VersionKey \o v)
QuotedVersion(v) ==
    CfgLine(1, "version", v, <<" ", " ">> \o VersionKey \o <<"\"">> \o v \o <<"\"">>)
NameLine == CfgLine(1, "name", <<"x">>, <<" ", " ", "n", "a", "m", "e", ":", " ", "x">>)

CfgLines ==
    { AppLine, OtherLine, NestedVersion(V100), NestedVersion(V2310), TopVersion(V100),
      QuotedVersion(V2310), NameLine }

\* the bytes of cfg/app.yaml: each line ended by LF
CfgBytes(lines) == Flatten([i \in 1..Len(lines) |-> lines[i].text \o <<LF>>])

----------------------------------------------------------------------------
(* Bounds                                                                  *)

MaxItems == 3   \* items of the document of an update_markdown call
NFiles == 2     \* Markdown files under the working directory
MaxLines == 3   \* lines of cfg/app.yaml

----------------------------------------------------------------------------
(* The working directory                                                   *)

Md(i) == [name |-> i, suffix |-> ".md", file |-> TRUE]
MdFiles == {Md(i) : i \in 1..NFiles}
\* a file that is no Markdown file, and a directory whose name ends in .md
TxtFile == [name |-> 1, suffix |-> ".txt", file |-> TRUE]
MdDir == [name |-> 1, suffix |-> ".md", file |-> FALSE]
Paths == MdFiles \cup {TxtFile, MdDir}
Files == {p \in Paths : p.file}

\* the lists that hold each element of S once: the orders rglob can yield
Orders(S) ==
    {f \in [1..Cardinality(S) -> S] : \A i, j \in DOMAIN f : f[i] = f[j] => i = j}

LineSeps == {<<LF>>, <<CR, LF>>}

MainDocs == { <<PlaceholderItem, CrLfItem>>, <<Annotation(PlainLabel, V100)>>,
              <<DigitItem, CrLfItem>> }
MainCfgs == { <<AppLine, NestedVersion(V100)>>, <<AppLine, NestedVersion(V2310)>>,
              <<AppLine, NameLine>> }

NoVersionMessage == "Unable to locate app.version in cfg/app.yaml"
UpdatedMessage(v) == <<"Updated version placeholders to ", v, ".">>
NoUpdatesMessage == <<"No Markdown files required updates.">>

\* mutant: any_changed = instead of any_changed |=
Accumulate_Overwrites(flag, ret) == ret

\* main, line 60: any_changed |= <the value update_markdown returned>
Accumulate(flag, ret) == flag \/ ret

\* mutant: the two messages exchanged
Summary_Exchanged(flag, v) == IF flag THEN NoUpdatesMessage ELSE UpdatedMessage(v)

\* main, lines 62-65: the line printed
Summary(flag, v) == IF flag THEN UpdatedMessage(v) ELSE NoUpdatesMessage

----------------------------------------------------------------------------
(* The run of the script                                                   *)

InitLocals ==
    /\ markdown_files = <<>>
    /\ idx = 1
    /\ any_changed = FALSE
    /\ stdout = <<>>
    /\ stderr = <<>>
    /\ exit_code = "running"
    /\ calls = <<>>

\* the script is started in a directory of NFiles Markdown files, at most one of
\* which cannot be opened for reading or for writing
Init ==
    /\ cfgdoc \in MainCfgs
    /\ cfg = CfgBytes(cfgdoc)
    /\ \E d \in [MdFiles -> MainDocs] :
           docs = [p \in Files |-> IF p \in MdFiles THEN d[p] ELSE <<PlaceholderItem>>]
    /\ fs = [p \in Files |-> DocBytes(docs[p])]
    /\ fs0 = fs
    /\ \E bad \in {{}} \cup {{p} : p \in MdFiles} :
           \/ unreadable = bad /\ unwritable = {}
           \/ unreadable = {} /\ unwritable = bad /\ bad # {}
    /\ linesep \in LineSeps
    /\ pc = "load"
    /\ version = <<>>
    /\ InitLocals

\* main, line 55: version = load_version(); SystemExit ends the process with
\* the message on stderr and status 1
Load ==
    /\ pc = "load"
    /\ LET r == load_version(Decode(cfg)) IN
       IF r.ok
       THEN /\ version' = r.v
            /\ pc' = "enumerate"
            /\ UNCHANGED <<stderr, exit_code>>
       ELSE /\ stderr' = Append(stderr, NoVersionMessage)
            /\ exit_code' = "1"
            /\ pc' = "exited"
            /\ UNCHANGED version
    /\ UNCHANGED <<cfg, fs, unreadable, unwritable, linesep, markdown_files, idx,
                   any_changed, stdout, calls, fs0, docs, cfgdoc>>

\* main, lines 56-58: the Markdown files, in the order the file system gives
Enumerate ==
    /\ pc = "enumerate"
    /\ markdown_files' \in Orders({p \in Paths : p.suffix = ".md" /\ p.file})
    /\ any_changed' = FALSE
    /\ idx' = 1
    /\ pc' = "loop"
    /\ UNCHANGED <<cfg, fs, unreadable, unwritable, linesep, version, stdout, stderr,
                   exit_code, calls, fs0, docs, cfgdoc>>

\* the record of a call of update_markdown on path p with result r
CallRecord(p, v, r) ==
    [path |-> p, version |-> v, before |-> fs[p], after |-> r.bytes, ret |-> r.ret,
     wrote |-> r.wrote, raised |-> r.raised]

\* main, lines 59-60: any_changed |= update_markdown(md_file, version); an
\* OSError is not caught: traceback on stderr, status 1
Step ==
    /\ pc = "loop"
    /\ idx <= Len(markdown_files)
    /\ LET md_file == markdown_files[idx]
           r == update_markdown(fs[md_file], version, linesep,
                                md_file \notin unreadable, md_file \notin unwritable)
       IN /\ calls' = Append(calls, CallRecord(md_file, version, r))
          /\ fs' = [fs EXCEPT ![md_file] = r.bytes]
          /\ IF r.raised
             THEN /\ stderr' = Append(stderr, "Traceback")
                  /\ exit_code' = "1"
                  /\ pc' = "exited"
                  /\ UNCHANGED <<any_changed, idx>>
             ELSE /\ any_changed' = Accumulate(any_changed, r.ret)
                  /\ idx' = idx + 1
                  /\ UNCHANGED <<stderr, exit_code, pc>>
    /\ UNCHANGED <<cfg, unreadable, unwritable, linesep, version, markdown_files,
                   stdout, fs0, docs, cfgdoc>>

\* main, lines 62-67: the summary line, status 0
Report ==
    /\ pc = "loop"
    /\ idx > Len(markdown_files)
    /\ stdout' = Append(stdout, Summary(any_changed, version))
    /\ exit_code' = "0"
    /\ pc' = "exited"
    /\ UNCHANGED <<cfg, fs, unreadable, unwritable, linesep, version, markdown_files,
                   idx, any_changed, stderr, calls, fs0, docs, cfgdoc>>

Next == Load \/ Enumerate \/ Step \/ Report

Spec == Init /\ [][Next]_vars

----------------------------------------------------------------------------
(* update_markdown called on one file, twice in succession                 *)

TheFile == Md(1)

InitU ==
    /\ cfgdoc = <<>>
    /\ cfg = <<>>
    /\ \E d \in SeqsUpTo(Items, MaxItems) : docs = [p \in {TheFile} |-> d]
    /\ fs = [p \in {TheFile} |-> DocBytes(docs[p])]
    /\ fs0 = fs
    /\ unreadable = {}
    /\ unwritable = {}
    /\ linesep \in LineSeps
    /\ pc = "first call"
    /\ version \in Versions
    /\ InitLocals

Call ==
    /\ pc \in {"first call", "second call"}
    /\ pc' = IF pc = "first call" THEN "second call" ELSE "returned"
    /\ LET r == update_markdown(fs[TheFile], version, linesep, TRUE, TRUE) IN
       /\ calls' = Append(calls, CallRecord(TheFile, version, r))
       /\ fs' = [fs EXCEPT ![TheFile] = r.bytes]
    /\ UNCHANGED <<cfg, unreadable, unwritable, linesep, version, markdown_files, idx,
                   any_changed, stdout, stderr, exit_code, fs0, docs, cfgdoc>>

NextU == Call

SpecU == InitU /\ [][NextU]_vars

----------------------------------------------------------------------------
(* load_version on a cfg/app.yaml of at most MaxLines lines                *)

InitL ==
    /\ cfgdoc \in SeqsUpTo(CfgLines, MaxLines)
    /\ cfg = CfgBytes(cfgdoc)
    /\ docs = <<>>
    /\ fs = <<>>
    /\ fs0 = fs
    /\ unreadable = {}
    /\ unwritable = {}
    /\ linesep \in LineSeps
    /\ pc = "load"
    /\ version = <<>>
    /\ InitLocals

NextL == Load

SpecL == InitL /\ [][NextL]_vars

----------------------------------------------------------------------------
(* What the specification says of a document                               *)

\* the text an item is to become under version v
ExpectedItem(it, v) ==
    CASE it.kind = "placeholder" -> v
      [] it.kind = "annotation" -> it.head \o v
      [] OTHER -> it.head

\* the text a document is to become under version v, line endings as read in
\* text mode
ExpectedText(doc, v) ==
    Decode(Flatten([i \in 1..Len(doc) |-> ExpectedItem(doc[i], v)]))

\* the bytes a file composed of doc is to hold after update_markdown: rewritten
\* with the line separator sep if its text changes, and as they were if not
ExpectedBytes(doc, v, sep) ==
    IF ExpectedText(doc, v) = Decode(DocBytes(doc)) THEN DocBytes(doc)
    ELSE Encode(ExpectedText(doc, v), sep)

HasPlaceholder(doc) == \E i \in 1..Len(doc) : doc[i].kind = "placeholder"
HasAnnotation(doc) == \E i \in 1..Len(doc) : doc[i].kind = "annotation"

\* no digit follows a version directly (it would be part of the version)
WellFormed(doc) ==
    \A i \in 2..Len(doc) : doc[i] = DigitItem => doc[i - 1].kind = "text"

\* the document of the file update_markdown is called on
TheDoc == docs[TheFile]
Returned(n) == Len(calls) >= n

----------------------------------------------------------------------------
(* Claims about update_markdown (SpecU)                                    *)

\* C1 as stated: a file that contains {Version} is left as the original with
\* every occurrence of {Version} replaced by the version, nothing else altered.
C1_AsStated ==
    (Returned(1) /\ Contains(VERSION_PLACEHOLDER, calls[1].before))
        => calls[1].after = StrReplace(calls[1].before, VERSION_PLACEHOLDER, version)

\* C1 amended: a file that contains {Version} is rewritten with every occurrence
\* of {Version} replaced by the version; the rest is as in the original except
\* that every annotation the text then holds carries the version and every line
\* ending is the line separator of the host.
C1_PlaceholdersReplaced ==
    (Returned(1) /\ HasPlaceholder(TheDoc) /\ WellFormed(TheDoc))
        => /\ calls[1].wrote
           /\ calls[1].after = Encode(ExpectedText(TheDoc, version), linesep)

C1_Witness ==
    /\ Returned(1)
    /\ TheDoc = <<DigitItem, PlaceholderItem, PlaceholderItem>>
    /\ calls[1].after = <<"5">> \o version \o version

C3_Idempotent ==
    Returned(2)
        => /\ calls[2].before = calls[1].after
           /\ calls[2].after = calls[1].after
           /\ ~calls[2].wrote
           /\ ~calls[2].ret

C3_Witness ==
    /\ Returned(2)
    /\ calls[1].ret
    /\ HasPlaceholder(TheDoc)
    /\ HasAnnotation(TheDoc)

\* C4: update_markdown writes exactly when the transformed text differs from
\* the text read, and returns True exactly then; a file with no {Version} and
\* no annotation is not written, keeps its bytes and is reported unchanged.
C4_WritesIffChanged ==
    \A n \in 1..Len(calls) :
        LET c == calls[n]
            original == Decode(c.before)
        IN /\ c.wrote <=> (UpdateText(original, c.version) # original)
           /\ c.ret <=> c.wrote
           /\ ~c.wrote => c.after = c.before
           /\ (n = 1 /\ ~HasPlaceholder(TheDoc) /\ ~HasAnnotation(TheDoc))
                  => (~c.wrote /\ ~c.ret /\ c.after = c.before)

C4_Witness ==
    /\ Returned(1)
    /\ TheDoc = <<LabelItem, CrLfItem, DigitItem>>
    /\ linesep = <<LF>>
    /\ ~calls[1].wrote

\* the version a match m of an annotation pattern in text carries
MatchedVersion(text, m) == Slice(text, m.ge, m.end - 1)

\* C10: after update_markdown the file holds no {Version}, and every match of
\* an annotation pattern in it carries exactly the version.
C10_PostCondition ==
    Returned(1)
        => LET text == calls[1].after IN
           /\ ~Contains(VERSION_PLACEHOLDER, text)
           /\ \A n \in 1..Len(VERSION_LINE_PATTERNS) : \A i \in 1..Len(text) :
                 LET m == MatchAt(VERSION_LINE_PATTERNS[n], text, i) IN
                 m # NoMatch => MatchedVersion(text, m) = version

C10_Witness ==
    /\ Returned(1)
    /\ TheDoc = <<LabelItem, PlaceholderItem, DigitItem>>
    /\ calls[1].after = PlainLabel \o version

----------------------------------------------------------------------------
(* Claims about the run (Spec)                                             *)

\* cfg/app.yaml has a line giving a version
HasVersionLine(lines) == \E i \in 1..Len(lines) : lines[i].key = "version"

\* the run was ended by SystemExit of load_version
AbortedByLoad == pc = "exited" /\ exit_code = "1" /\ markdown_files = <<>>
\* the run was ended by an OSError of update_markdown
AbortedByFile == pc = "exited" /\ exit_code = "1" /\ markdown_files # <<>>
Completed == pc = "exited" /\ exit_code = "0"

\* C5: with no version in cfg/app.yaml the run ends with a non-zero status
\* before any target file is enumerated, read or written, and prints no summary.
C5_NoVersionAborts ==
    (~HasVersionLine(cfgdoc) /\ pc # "load")
        => /\ AbortedByLoad
           /\ stderr = <<NoVersionMessage>>
           /\ calls = <<>>
           /\ fs = fs0
           /\ stdout = <<>>

C5_Witness == ~HasVersionLine(cfgdoc) /\ pc = "exited" /\ exit_code = "1"

\* C6: a run that completes has printed exactly one line: the "Updated"
\* message if some update_markdown call returned True, else the "No Markdown
\* files required updates" message.
C6_OneSummaryLine ==
    Completed
        => /\ Len(stdout) = 1
           /\ stdout[1] = IF \E n \in 1..Len(calls) : calls[n].ret
                          THEN UpdatedMessage(version) ELSE NoUpdatesMessage

C6_Witness ==
    /\ Completed
    /\ stdout = <<UpdatedMessage(version)>>
    /\ calls[1].ret
    /\ ~calls[Len(calls)].ret

\* the target files the for loop has been through, and those it has not
Processed == {markdown_files[j] : j \in 1..(idx - 1)}
NotProcessed == Files \ Processed

\* C7 as stated: a run aborted because a target file cannot be read or written
\* has modified no target file.
C7_AsStated == AbortedByFile => fs = fs0

\* C7 amended: a run that completes has processed every target file; a run
\* aborted because a target file cannot be read or cannot be opened for writing
\* leaves the files processed before it updated, that file and the files after
\* it as they were, and prints no summary line.
C7_AbortKeepsEarlierUpdates ==
    /\ Completed => Processed = MdFiles
    /\ AbortedByFile
        => /\ \A p \in Processed : fs[p] = ExpectedBytes(docs[p], version, linesep)
           /\ \A p \in NotProcessed : fs[p] = fs0[p]
           /\ markdown_files[idx] \in unreadable \cup unwritable
           /\ stdout = <<>>

C7_Witness ==
    /\ AbortedByFile
    /\ idx = Len(markdown_files)
    /\ \E p \in Processed : fs[p] # fs0[p]

\* C8: whatever the order of the files, a run that completes leaves each file
\* with the content that file alone determines, has had update_markdown return
\* for each file whether its text changes, and ends with any_changed true if
\* some file's text changes; no call touches another file.
C8_OrderInsensitive ==
    /\ \A p \in NotProcessed : fs[p] = fs0[p]
    /\ \A n \in 1..Len(calls) : calls[n].before = fs0[calls[n].path]
    /\ Completed
          => /\ \A p \in MdFiles : fs[p] = ExpectedBytes(docs[p], version, linesep)
             /\ \A p \in MdFiles : \E n \in 1..Len(calls) :
                   /\ calls[n].path = p
                   /\ calls[n].ret
                        <=> (ExpectedText(docs[p], version) # Decode(fs0[p]))
             /\ any_changed
                  <=> \E p \in MdFiles : ExpectedText(docs[p], version) # Decode(fs0[p])

C8_Witness ==
    /\ Completed
    /\ any_changed
    /\ ~calls[Len(calls)].ret
    /\ calls[1].ret

----------------------------------------------------------------------------
(* Claims about load_version (SpecL)                                       *)

\* line j is in the block of the top-level key of line i
InBlock(lines, i, j) == i < j /\ \A k \in (i + 1)..j : lines[k].depth = 1

\* the lines are a YAML mapping: it starts at depth 0, a nested line follows a
\* key that has no value, and no key occurs twice in one mapping
ValidYaml(lines) ==
    /\ \A j \in 1..Len(lines) :
          lines[j].depth = 1 => (j > 1 /\ (lines[j - 1].depth = 1 \/ lines[j - 1].value = <<>>))
    /\ \A i, j \in 1..Len(lines) :
          (i < j /\ lines[i].depth = 0 /\ lines[j].depth = 0) => lines[i].key # lines[j].key
    /\ \A i, j \in 1..Len(lines) :
          (i < j /\ lines[i].depth = 1 /\ lines[j].depth = 1 /\ InBlock(lines, i, j))
              => lines[i].key # lines[j].key

\* the values of app.version (at most one in a valid file)
AppVersions(lines) ==
    {lines[j].value : j \in {j \in 1..Len(lines) :
        /\ lines[j].key = "version"
        /\ \E i \in 1..Len(lines) : lines[i] = AppLine /\ InBlock(lines, i, j)}}

\* every version is written as a plain scalar, vX.Y.Z
PlainValues(lines) == \A i \in 1..Len(lines) : lines[i] # QuotedVersion(V2310)

\* C9: load_version returns the value of app.version whenever the file gives
\* it one, whatever else the file contains.
C9_ReturnsAppVersion ==
    (pc # "load" /\ ValidYaml(cfgdoc) /\ PlainValues(cfgdoc))
        => \A v \in AppVersions(cfgdoc) : pc = "enumerate" /\ version = v

====
